---- MODULE Spec2Model ----
(***************************************************************************)
(* Model of the autonomous snake agent of src/src/agent.py: the main loop  *)
(* play with its per-tick pipeline observe -> think -> act, the goal       *)
(* selector _find_goal and the emergency heuristic _get_fast_action.       *)
(*                                                                         *)
(* Mapping, SnakeGame and SearchTree are collaborators whose code is not   *)
(* among the sources: what they answer is drawn from small sets, within    *)
(* what their specification allows.                                        *)
(*                                                                         *)
(* Spec      the main loop.                                                *)
(* GoalSpec  _find_goal applied to every input.                            *)
(* FastSpec  _get_fast_action applied to every input.                      *)
(***************************************************************************)
EXTENDS Integers, Sequences, FiniteSets, TLC

\* ------------------------------------------------------------------ bounds
\* The grid has the columns 0..MaxCoord (and the two rows of Rows).
MaxCoord == 1
\* Longest root-to-goal action sequence a search returns.
MaxPlan == 3
\* How many clean-close events the model follows (the loop itself goes on).
MaxClose == 2
\* Nodes of a search tree
MaxNodes == 3
\* Cells of a snake body
MaxBody == 2

\* --------------------------------------------------------------- constants
Directions == {"NORTH", "WEST", "SOUTH", "EAST"}

\* src/src/agent.py:32-37
DIRECTION_TO_KEY ==
  [d \in Directions |->
     CASE d = "NORTH" -> "w"
       [] d = "WEST"  -> "a"
       [] d = "SOUTH" -> "s"
       [] d = "EAST"  -> "d"]

\* Two rows are what NORTH and SOUTH need; the width grows with MaxCoord.
Rows == {0, 1}

\* Cells <<x, y>> of the grid
Coords == (0..MaxCoord) \X Rows

\* Python's None, for self.action
None == "None"
\* Python's None, for self.current_goal
NoGoal == <<>>

Abs(x) == IF x < 0 THEN -x ELSE x

Reverse(s) == [i \in 1..Len(s) |-> s[Len(s) + 1 - i]]

VARIABLES
  pc,              \* position of play: "recv", "think", "act", "logged", "returned",
                   \* "crashed" (think raised), "key_error" (act's lookup raised)
  conn,            \* transport: "open", or "closed" (cleanly closed by the server)
  closeCount,      \* number of ConnectionClosedOK events raised so far
  head,            \* self.mapping.state["body"][0]
  legal,           \* self.domain.actions(self.mapping.state)
  nothingNew,      \* self.mapping.nothing_new_observed(self.perfect_effects)
  actions_plan,    \* self.actions_plan
  action,          \* self.action
  current_goal,    \* self.current_goal["position"], NoGoal while self.current_goal is None
  outcome,         \* how think ended in the current tick: "reuse", "solved", "failed"
  sent,            \* keys handed to websocket.send in the current tick
  fast,            \* value of _get_fast_action that its caller kept, or None
  found,           \* root-to-goal actions of the search the plan is being served from
  consumed,        \* think cycles served from found
  planGoal,        \* goal position of the search that produced actions_plan, NoGoal
                   \* while no plan is held
  strategy,        \* self.current_goal["strategy"] (GoalSpec)
  foodKnown,       \* self.mapping.observed(Tiles.FOOD) (GoalSpec)
  superKnown,      \* self.mapping.observed(Tiles.SUPER) (GoalSpec)
  perfect_effects, \* self.perfect_effects (GoalSpec)
  exploreCalls,    \* what each call of self.mapping.next_exploration by _find_goal
                   \* returned, in call order (GoalSpec)
  nodes,           \* the SearchNode objects of a search tree, in creation order (NodeSpec)
  tried            \* the last in_parent call: node, newstate and value returned (NodeSpec)

vars == <<pc, conn, closeCount, head, legal, nothingNew, actions_plan, action,
          current_goal, outcome, sent, fast, found, consumed, planGoal, strategy,
          foodKnown, superKnown, perfect_effects, exploreCalls, nodes, tried>>

mapVars == <<head, legal, nothingNew>>
agentVars == <<actions_plan, action, current_goal>>
tickVars == <<outcome, sent, fast>>
planVars == <<found, consumed, planGoal>>
\* The strategy tag and what decides it are written and logged but never read
\* by the loop: Spec leaves them alone, GoalSpec checks them.
goalVars == <<strategy, foodKnown, superKnown, perfect_effects, exploreCalls>>
\* The search tree is touched by NodeSpec only.
nodeVars == <<nodes, tried>>

\* ------------------------------------------------------- pure operators

\* An act that never finds its action impossible.
action_always_possible(a, l) == FALSE

\* src/src/agent.py:142-143  self.action not in self.domain.actions(state)
action_not_possible(a, l) == a \notin l

\* A proposal along the axis of the smaller offset.
fast_proposal_minor_axis(h, g) ==
  LET dx == Abs(h[1] - g[1])
      dy == Abs(h[2] - g[2])
  IN  IF dx < dy
        THEN (IF h[1] > g[1] THEN "WEST" ELSE "EAST")
        ELSE (IF h[2] > g[2] THEN "NORTH" ELSE "SOUTH")

\* src/src/agent.py:211-218  the direction _get_fast_action proposes before
\* the legality check.
fast_proposal(h, g) ==
  LET dx == Abs(h[1] - g[1])
      dy == Abs(h[2] - g[2])
  IN  IF dx > dy
        THEN (IF h[1] > g[1] THEN "WEST" ELSE "EAST")
        ELSE (IF h[2] > g[2] THEN "NORTH" ELSE "SOUTH")

\* A heuristic that returns its proposal without the legality check.
get_fast_action_unchecked(h, g, l) == {fast_proposal(h, g)}

\* A heuristic that gives up (returns None) when no action is legal.
get_fast_action_none_when_boxed(h, g, l) ==
  IF fast_proposal(h, g) \in l
    THEN {fast_proposal(h, g)}
    ELSE IF l # {} THEN l ELSE {None}

\* src/src/agent.py:202-229  the values _get_fast_action may return
\* (random.choice is a choice over its argument).
get_fast_action(h, g, l) ==
  IF fast_proposal(h, g) \in l
    THEN {fast_proposal(h, g)}
    ELSE IF l # {} THEN l ELSE Directions

\* mapping.closest_object: the cell of a known tile, never the head's own cell.
closest_object(h) == Coords \ {h}

\* mapping.next_exploration: any cell, the head's included (hence the retry
\* at agent.py:197).
next_exploration == Coords

\* An exploration that keeps the first result of next_exploration, the head's
\* own cell included.
explore_goals_no_retry(h) ==
  {[strategy |-> "exploration", position |-> p, calls |-> <<p>>] : p \in next_exploration}

\* agent.py:193-198  the exploration goals, each with the results of the calls
\* of next_exploration made: one call whose result is not the head, or a first
\* call that returns the head and a second call whose result stands.
explore_goals(h) ==
  {[strategy |-> "exploration", position |-> p, calls |-> <<p>>] :
     p \in {q \in next_exploration : q # h}}
  \cup {[strategy |-> "exploration", position |-> p, calls |-> <<first, p>>] :
          first \in {q \in next_exploration : q = h}, p \in next_exploration}

\* A goal selector that tests the power-up before the food.
find_goal_super_first(h, food, sup, perfect) ==
  IF sup /\ ~perfect
    THEN {[strategy |-> "super", position |-> p, calls |-> <<>>] : p \in closest_object(h)}
    ELSE IF food
      THEN {[strategy |-> "food", position |-> p, calls |-> <<>>] : p \in closest_object(h)}
      ELSE explore_goals(h)

\* src/src/agent.py:181-200  the goals _find_goal may return, each with the
\* results of the next_exploration calls made.
find_goal(h, food, sup, perfect) ==
  IF food
    THEN {[strategy |-> "food", position |-> p, calls |-> <<>>] : p \in closest_object(h)}
    ELSE IF sup /\ ~perfect
      THEN {[strategy |-> "super", position |-> p, calls |-> <<>>] : p \in closest_object(h)}
      ELSE explore_goals(h)

\* agent.py:154,158  the goal positions think may get from _find_goal,
\* whatever the mapping knows and whether or not the agent is empowered.
goal_positions(h) ==
  {g.position : g \in UNION {find_goal(h, food, sup, perfect) :
                               food \in BOOLEAN, sup \in BOOLEAN, perfect \in BOOLEAN}}

\* list.pop() taken from the front of the list
pop_action_front(plan) == plan[1]

\* src/src/agent.py:150,177  the value of self.actions_plan.pop()
pop_action(plan) == plan[Len(plan)]

\* list.pop() that drops the first element instead of the last
pop_rest_front(plan) == SubSeq(plan, 2, Len(plan))

\* src/src/agent.py:150,177  self.actions_plan after .pop()
pop_rest(plan) == SubSeq(plan, 1, Len(plan) - 1)

\* SearchTree.inverse_plan: the root-to-goal actions reversed, so that the
\* next action to execute is the last element.
inverse_plan(path) == Reverse(path)

\* The cell next to c in direction d (NORTH is towards smaller y, WEST towards
\* smaller x, as in the comparisons of _get_fast_action).
move(c, d) ==
  CASE d = "NORTH" -> <<c[1], c[2] - 1>>
    [] d = "SOUTH" -> <<c[1], c[2] + 1>>
    [] d = "WEST"  -> <<c[1] - 1, c[2]>>
    [] d = "EAST"  -> <<c[1] + 1, c[2]>>

\* The action sequences of exactly n steps that lead from h to g, every step
\* on the grid and g met at the last step only.
RECURSIVE walks(_, _, _)
walks(h, g, n) ==
  IF n = 1
    THEN {<<d>> : d \in {e \in Directions : move(h, e) = g}}
    ELSE UNION {{<<d>> \o w : w \in walks(move(h, d), g, n - 1)} :
                  d \in {e \in Directions : move(h, e) \in Coords /\ move(h, e) # g}}

\* The walks of at most MaxPlan steps between any two cells
Walks == [h \in Coords, g \in Coords |-> UNION {walks(h, g, n) : n \in 1..MaxPlan}]

\* SnakeGame.actions: the legal sets the game model may report for a head at
\* h. A legal move keeps the head on the grid; walls and the body may forbid
\* any of the others.
actions_sets(h) == SUBSET {d \in Directions : move(h, d) \in Coords}

\* SearchTree.search, solved: the root-to-goal action sequences a search from
\* head h to goal g may return. The first action is legal in the root state,
\* every step stays on the grid, and the goal is met at the last step only
\* (a node whose state is the goal is returned, not expanded).
search_solutions(h, g, l) == {path \in Walks[h, g] : path[1] \in l}

\* An agent constructed with a plan already in hand.
Init_with_plan ==
  /\ pc = "recv"
  /\ conn = "open"
  /\ closeCount = 0
  /\ head = <<0, 0>>
  /\ legal = {}
  /\ nothingNew = FALSE
  /\ actions_plan = <<"NORTH">>
  /\ action = None
  /\ current_goal = NoGoal
  /\ outcome = "none"
  /\ sent = <<>>
  /\ fast = None
  /\ found = <<>>
  /\ consumed = 0
  /\ planGoal = NoGoal
  /\ strategy = None
  /\ foodKnown = FALSE
  /\ superKnown = FALSE
  /\ perfect_effects = FALSE
  /\ exploreCalls = <<>>
  /\ nodes = <<>>
  /\ tried = <<>>

\* ------------------------------------------------------------------ Init
\* The agent after __init__ (agent.py:47-65) and connect (agent.py:75-93).
Init ==
  /\ pc = "recv"
  /\ conn = "open"
  /\ closeCount = 0
  /\ head = <<0, 0>>
  /\ legal = {}
  /\ nothingNew = FALSE
  /\ actions_plan = <<>>
  /\ action = None
  /\ current_goal = NoGoal
  /\ outcome = "none"
  /\ sent = <<>>
  /\ fast = None
  /\ found = <<>>
  /\ consumed = 0
  /\ planGoal = NoGoal
  /\ strategy = None
  /\ foodKnown = FALSE
  /\ superKnown = FALSE
  /\ perfect_effects = FALSE
  /\ exploreCalls = <<>>
  /\ nodes = <<>>
  /\ tried = <<>>

\* --------------------------------------------------------------- play: recv
\* agent.py:99-108,120-125  a message with a body arrives and is observed.
\* nothing_new_observed is asked only of a non-empty plan (agent.py:149), so
\* its answer is drawn only then.
RecvBody ==
  /\ pc = "recv"
  /\ conn = "open"
  /\ \E h \in Coords, nn \in (IF actions_plan = <<>> THEN {FALSE} ELSE BOOLEAN) :
     \E l \in actions_sets(h) :
       /\ head' = h
       /\ legal' = l
       /\ nothingNew' = nn
  /\ outcome' = "none"
  /\ sent' = <<>>
  /\ fast' = None
  /\ pc' = "think"
  /\ UNCHANGED <<conn, closeCount, agentVars, planVars, goalVars, nodeVars>>

\* A play that forgets its plan and its goal when the game is over.
RecvNoBody_resets ==
  /\ pc = "recv"
  /\ conn = "open"
  /\ pc' = "returned"
  /\ actions_plan' = <<>>
  /\ current_goal' = NoGoal
  /\ UNCHANGED <<conn, closeCount, mapVars, action, tickVars, planVars, goalVars, nodeVars>>

\* agent.py:101-103  a message without a body: break.
RecvNoBody ==
  /\ pc = "recv"
  /\ conn = "open"
  /\ pc' = "returned"
  /\ UNCHANGED <<conn, closeCount, mapVars, agentVars, tickVars, planVars, goalVars, nodeVars>>

\* agent.py:99,115-116,97  recv raises ConnectionClosedOK; the handler logs and
\* the while loop goes on to the next recv.
RecvClosed ==
  /\ pc = "recv"
  /\ closeCount < MaxClose
  /\ conn' = "closed"
  /\ closeCount' = closeCount + 1
  /\ pc' = "recv"
  /\ UNCHANGED <<mapVars, agentVars, tickVars, planVars, goalVars, nodeVars>>

\* -------------------------------------------------------------------- think
\* agent.py:149-151  follow the plan.
ThinkReuse ==
  /\ pc = "think"
  /\ Len(actions_plan) # 0 /\ nothingNew
  /\ action' = pop_action(actions_plan)
  /\ actions_plan' = pop_rest(actions_plan)
  /\ outcome' = "reuse"
  /\ consumed' = IF found # <<>> THEN consumed + 1 ELSE consumed
  /\ planGoal' = IF pop_rest(actions_plan) = <<>> THEN NoGoal ELSE planGoal
  /\ pc' = "act"
  /\ UNCHANGED <<conn, closeCount, mapVars, current_goal, sent, fast, found, goalVars, nodeVars>>

\* agent.py:149  the plan is not followed
Replan == pc = "think" /\ ~(Len(actions_plan) # 0 /\ nothingNew)

\* agent.py:154-163,175-177  the search returns a solution. When the goal is
\* the head's own cell the root is the goal: the inverse plan is empty and
\* pop raises IndexError, which play does not catch.
ThinkSolved ==
  /\ Replan
  /\ \E g \in goal_positions(head) :
       /\ current_goal' = g
       /\ IF g = head
            THEN /\ actions_plan' = inverse_plan(<<>>)
                 /\ action' = action
                 /\ found' = <<>>
                 /\ consumed' = 0
                 /\ planGoal' = NoGoal
                 /\ pc' = "crashed"
            ELSE \E path \in search_solutions(head, g, legal) :
                   /\ action' = pop_action(inverse_plan(path))
                   /\ actions_plan' = pop_rest(inverse_plan(path))
                   /\ found' = path
                   /\ consumed' = 1
                   /\ planGoal' = IF pop_rest(inverse_plan(path)) = <<>> THEN NoGoal ELSE g
                   /\ pc' = "act"
  /\ outcome' = "solved"
  /\ UNCHANGED <<conn, closeCount, mapVars, sent, fast, goalVars, nodeVars>>

\* agent.py:164-167 (TimeLimitExceeded) and 170-173 (no solution), which do
\* the same: the heuristic's value
\* is bound to self.solution, an attribute nothing reads, so the call changes
\* nothing; self.action and self.actions_plan stay as they were.
ThinkFailed ==
  /\ Replan
  /\ \E g \in goal_positions(head) :
       /\ current_goal' = g
       /\ get_fast_action(head, g, legal) # {}
  /\ outcome' = "failed"
  /\ found' = <<>>
  /\ consumed' = 0
  /\ planGoal' = planGoal
  /\ pc' = "act"
  /\ UNCHANGED <<conn, closeCount, mapVars, actions_plan, action, sent, fast, goalVars, nodeVars>>

\* ---------------------------------------------------------------------- act
\* agent.py:133-138  the action act is about to send: an impossible one is
\* replaced by the heuristic's value.
\* An act that sends self.action as think left it.
act_choices_no_substitute(a, h, g, l) == {a}

act_choices(a, h, g, l) ==
  IF action_not_possible(a, l) THEN get_fast_action(h, g, l) ELSE {a}

\* agent.py:129-140  substitute an impossible action, then send the key; the
\* send succeeds.
ActSend ==
  /\ pc = "act"
  /\ \E a \in act_choices(action, head, current_goal, legal) :
       /\ action' = a
       /\ fast' = IF action_not_possible(action, legal) THEN a ELSE fast
       /\ IF a \in DOMAIN DIRECTION_TO_KEY
            THEN /\ sent' = Append(sent, DIRECTION_TO_KEY[a])
                 /\ pc' = "logged"
            ELSE \* KeyError
                 /\ sent' = sent
                 /\ pc' = "key_error"
  /\ UNCHANGED <<conn, closeCount, mapVars, actions_plan, current_goal, outcome,
                 planVars, goalVars, nodeVars>>

\* What a tick leaves behind for the next one: the mapping's and the game
\* model's answers and the tick's records are not read again before the next
\* observe replaces them.
TickOver ==
  /\ head' = <<0, 0>>
  /\ legal' = {}
  /\ nothingNew' = FALSE
  /\ outcome' = "none"
  /\ sent' = <<>>
  /\ fast' = None

\* agent.py:129-140,115-116,97  the send raises ConnectionClosedOK: the key is
\* not delivered, the handler logs and the loop goes on to the next recv.
ActSendClosed ==
  /\ pc = "act"
  /\ closeCount < MaxClose
  /\ \E a \in act_choices(action, head, current_goal, legal) :
       /\ action' = a
       /\ pc' = IF a \in DOMAIN DIRECTION_TO_KEY THEN "recv" ELSE "key_error"
       /\ conn' = IF a \in DOMAIN DIRECTION_TO_KEY THEN "closed" ELSE conn
       /\ closeCount' = IF a \in DOMAIN DIRECTION_TO_KEY THEN closeCount + 1 ELSE closeCount
  /\ TickOver
  /\ UNCHANGED <<actions_plan, current_goal, planVars, goalVars, nodeVars>>

\* agent.py:113,97  the tick is over: log the elapsed time and loop.
LoopBack ==
  /\ pc = "logged"
  /\ pc' = "recv"
  /\ TickOver
  /\ UNCHANGED <<conn, closeCount, agentVars, planVars, goalVars, nodeVars>>

\* --------------------------------------------------------------------- play
Next ==
  \/ RecvBody
  \/ RecvNoBody
  \/ RecvClosed
  \/ ThinkReuse
  \/ ThinkSolved
  \/ ThinkFailed
  \/ ActSend
  \/ ActSendClosed
  \/ LoopBack

Spec == Init /\ [][Next]_vars

\* ------------------------------------------------------------ _find_goal
\* Every input of _find_goal: where the head is, what the mapping knows and
\* whether the agent is empowered.
GoalInit ==
  /\ pc = "goal_call"
  /\ head \in Coords
  /\ foodKnown \in BOOLEAN
  /\ superKnown \in BOOLEAN
  /\ perfect_effects \in BOOLEAN
  /\ conn = "open"
  /\ closeCount = 0
  /\ legal = {}
  /\ nothingNew = FALSE
  /\ actions_plan = <<>>
  /\ action = None
  /\ current_goal = NoGoal
  /\ outcome = "none"
  /\ sent = <<>>
  /\ fast = None
  /\ found = <<>>
  /\ consumed = 0
  /\ planGoal = NoGoal
  /\ strategy = None
  /\ exploreCalls = <<>>
  /\ nodes = <<>>
  /\ tried = <<>>

\* agent.py:154,181-200  self.current_goal = self._find_goal()
GoalCall ==
  /\ pc = "goal_call"
  /\ \E g \in find_goal(head, foodKnown, superKnown, perfect_effects) :
       /\ strategy' = g.strategy
       /\ current_goal' = g.position
       /\ exploreCalls' = g.calls
  /\ pc' = "goal_ret"
  /\ UNCHANGED <<conn, closeCount, mapVars, actions_plan, action, tickVars, planVars,
                 foodKnown, superKnown, perfect_effects, nodeVars>>

GoalSpec == GoalInit /\ [][GoalCall]_vars

\* ------------------------------------------------------ _get_fast_action
\* Every input of _get_fast_action: head, goal position and legal set.
FastInit ==
  /\ pc = "fast_call"
  /\ head \in Coords
  /\ current_goal \in Coords
  /\ legal \in SUBSET Directions
  /\ conn = "open"
  /\ closeCount = 0
  /\ nothingNew = FALSE
  /\ actions_plan = <<>>
  /\ action = None
  /\ outcome = "none"
  /\ sent = <<>>
  /\ fast = None
  /\ found = <<>>
  /\ consumed = 0
  /\ planGoal = NoGoal
  /\ strategy = "exploration"
  /\ foodKnown = FALSE
  /\ superKnown = FALSE
  /\ perfect_effects = FALSE
  /\ exploreCalls = <<>>
  /\ nodes = <<>>
  /\ tried = <<>>

\* agent.py:202-229  one call of _get_fast_action
FastCall ==
  /\ pc = "fast_call"
  /\ \E a \in get_fast_action(head, current_goal, legal) : fast' = a
  /\ pc' = "fast_ret"
  /\ UNCHANGED <<conn, closeCount, mapVars, agentVars, outcome, sent, planVars, goalVars, nodeVars>>

FastSpec == FastInit /\ [][FastCall]_vars

\* ------------------------------------------------------------ SearchNode
\* Python's None, for SearchNode.parent; a node is named by its place in nodes.
NoParent == 0
\* No in_parent call has been made yet.
NoTry == <<>>

\* The cells of a body, b in state["body"]
cells(body) == {body[i] : i \in 1..Len(body)}

\* The snake bodies of at most MaxBody cells: consecutive cells are neighbours
\* and no cell occurs twice.
Bodies ==
  {b \in UNION {[1..n -> Coords] : n \in 1..MaxBody} :
     /\ \A i \in 1..(Len(b) - 1) : \E d \in Directions : move(b[i + 1], d) = b[i]
     /\ \A i, j \in 1..Len(b) : b[i] = b[j] => i = j}

\* The states a search may start from.
GridStates == {[body |-> b, traverse |-> t] : b \in Bodies, t \in BOOLEAN}

\* SnakeGame.actions and SnakeGame.result: the successors of state s, each with
\* the action that produces it. The head moves to a neighbour on the grid, and
\* into the body only in traversal mode; the tail follows unless the snake
\* grows; the traversal flag may stay or change (a power-up eaten or worn off).
successors(s) ==
  LET hd == s.body[1]
      dirs == {d \in Directions :
                 /\ move(hd, d) \in Coords
                 /\ (move(hd, d) \in cells(s.body) => s.traverse)}
      shifted(d) == <<move(hd, d)>> \o SubSeq(s.body, 1, Len(s.body) - 1)
      grown(d) == <<move(hd, d)>> \o s.body
      bodies(d) == {shifted(d)} \cup (IF Len(s.body) < MaxBody THEN {grown(d)} ELSE {})
  IN  UNION {{[action |-> d, state |-> [body |-> b, traverse |-> t]] :
                b \in bodies(d), t \in BOOLEAN} : d \in dirs}

\* A node whose depth is its parent's own depth.
SearchNode_flat(state, parent, cost, heuristic, a) ==
  [state |-> state, parent |-> parent,
   depth |-> IF parent # NoParent THEN nodes[parent].depth ELSE 0,
   cost |-> cost, heuristic |-> heuristic, action |-> a]

\* src/src/search/search_node.py:10-16  SearchNode.__init__
SearchNode(state, parent, cost, heuristic, a) ==
  [state |-> state, parent |-> parent,
   depth |-> IF parent # NoParent THEN nodes[parent].depth + 1 ELSE 0,
   cost |-> cost, heuristic |-> heuristic, action |-> a]

\* search_node.py:38-39  the ancestor test left commented out in the source:
\* the new head alone is looked for in the ancestor's body.
RECURSIVE in_parent_head_only(_, _)
in_parent_head_only(n, newstate) ==
  IF nodes[n].parent = NoParent
    THEN FALSE
    ELSE IF /\ newstate.body[1] \in cells(nodes[nodes[n].parent].state.body)
            /\ nodes[nodes[n].parent].state.traverse = newstate.traverse
      THEN TRUE
      ELSE in_parent_head_only(nodes[n].parent, newstate)

\* search_node.py:30-41  SearchNode.in_parent
RECURSIVE in_parent(_, _)
in_parent(n, newstate) ==
  IF nodes[n].parent = NoParent
    THEN FALSE
    ELSE IF /\ \A i \in 1..Len(newstate.body) :
                 newstate.body[i] \in cells(nodes[nodes[n].parent].state.body)
            /\ nodes[nodes[n].parent].state.traverse = newstate.traverse
      THEN TRUE
      ELSE in_parent(nodes[n].parent, newstate)

\* A tree of one node, the root, for any initial state; the agent is idle.
NodeInit ==
  /\ pc = "expand"
  /\ \E s \in GridStates : nodes = <<SearchNode(s, NoParent, 0, 0, None)>>
  /\ tried = NoTry
  /\ conn = "open"
  /\ closeCount = 0
  /\ head = <<0, 0>>
  /\ legal = {}
  /\ nothingNew = FALSE
  /\ actions_plan = <<>>
  /\ action = None
  /\ current_goal = NoGoal
  /\ outcome = "none"
  /\ sent = <<>>
  /\ fast = None
  /\ found = <<>>
  /\ consumed = 0
  /\ planGoal = NoGoal
  /\ strategy = None
  /\ foodKnown = FALSE
  /\ superKnown = FALSE
  /\ perfect_effects = FALSE
  /\ exploreCalls = <<>>

\* SearchTree.search, expansion of node n: a successor for which n.in_parent
\* is False becomes a child of n, at unit step cost.
NodeAdmit ==
  /\ pc = "expand"
  /\ Len(nodes) < MaxNodes
  /\ \E n \in 1..Len(nodes) : \E succ \in successors(nodes[n].state) :
       /\ ~in_parent(n, succ.state)
       /\ tried' = [node |-> n, state |-> succ.state, result |-> FALSE]
       /\ nodes' = Append(nodes,
                          SearchNode(succ.state, n, nodes[n].cost + 1, 0, succ.action))
  /\ UNCHANGED <<pc, conn, closeCount, mapVars, agentVars, tickVars, planVars, goalVars>>

\* SearchTree.search, expansion of node n: a successor for which n.in_parent
\* is True is dropped.
NodePrune ==
  /\ pc = "expand"
  /\ \E n \in 1..Len(nodes) : \E succ \in successors(nodes[n].state) :
       /\ in_parent(n, succ.state)
       /\ tried' = [node |-> n, state |-> succ.state, result |-> TRUE]
  /\ UNCHANGED <<pc, conn, closeCount, mapVars, agentVars, tickVars, planVars, goalVars,
                 nodes>>

NodeNext ==
  \/ NodeAdmit
  \/ NodePrune

NodeSpec == NodeInit /\ [][NodeNext]_vars

\* ---------------------------------------------------------------- claims

TypeOK ==
  /\ pc \in {"recv", "think", "act", "logged", "returned", "crashed", "key_error"}
  /\ action \in Directions \cup {None}
  /\ Len(actions_plan) <= MaxPlan
  /\ closeCount \in 0..MaxClose

\* The keys of the directions _get_fast_action may return for the current
\* head, goal and legal set.
FastKeys == {DIRECTION_TO_KEY[a] : a \in get_fast_action(head, current_goal, legal)}

\* C1: once the transport has raised the clean-close event, play attempts no
\* further receive or send: a second clean-close event is never raised.
C1_CleanCloseStopsLoop == closeCount <= 1

\* C2: in a tick whose search ended with TimeLimitExceeded or without a
\* solution, the key act sends is that of an action the emergency heuristic
\* returns for the newly selected goal.
C2_FailedSearchSendsFastAction ==
  (pc = "logged" /\ outcome = "failed") => (Len(sent) = 1 /\ sent[1] \in FastKeys)

\* C3: whatever the earlier ticks, when the legal set of the current belief
\* state is not empty, the key sent to the server is that of a legal action.
C3_SentActionIsLegal ==
  (pc = "logged" /\ legal # {}) => \E d \in legal : sent = <<DIRECTION_TO_KEY[d]>>

\* C3 witness: a tick that followed the plan, found the popped action
\* impossible and sent the heuristic's legal substitute.
C3_Witness ==
  /\ pc = "logged"
  /\ outcome = "reuse"
  /\ legal # {}
  /\ fast # None
  /\ sent = <<DIRECTION_TO_KEY[fast]>>

\* C4: every tick of a message with a body ends with exactly one direction
\* handed to the transport, whatever the outcome of planning.
C4_OneSendPerTick ==
  (outcome # "none" /\ pc \in {"logged", "crashed", "key_error"}) => Len(sent) = 1

\* C5: for every head, goal and legal set, when the legal set is not empty
\* the action _get_fast_action returns is a member of it.
C5_FastActionIsLegal == (pc = "fast_ret" /\ legal # {}) => fast \in legal

\* C5 witness: the proposed direction is not legal, some other direction is,
\* and the heuristic has returned.
C5_Witness ==
  /\ pc = "fast_ret"
  /\ legal # {}
  /\ fast_proposal(head, current_goal) \notin legal
  /\ fast \in Directions

\* C6: the strategy _find_goal returns follows the priority food, then
\* power-up unless empowered, then exploration.
C6_GoalPriority ==
  pc = "goal_ret" =>
    /\ foodKnown => strategy = "food"
    /\ (~foodKnown /\ superKnown /\ ~perfect_effects) => strategy = "super"
    /\ (~foodKnown /\ ~(superKnown /\ ~perfect_effects)) => strategy = "exploration"

\* C6 witness: food and a power-up are both known, the agent is not empowered,
\* and the goal selected is the food.
C6_Witness ==
  /\ pc = "goal_ret"
  /\ foodKnown /\ superKnown /\ ~perfect_effects
  /\ strategy = "food"
  /\ current_goal \in Coords

\* C7: after a planning cycle that re-planned, the stored plan holds no action
\* of an earlier search: it is what is left of the new search's inverse plan
\* when the search succeeded and empty when it failed.
C7_ReplanReplacesPlan ==
  /\ (pc = "act" /\ outcome = "failed") => actions_plan = <<>>
  /\ (pc = "act" /\ outcome = "solved") =>
       actions_plan = SubSeq(Reverse(found), 1, Len(found) - 1)

\* C8: when the plan is not empty and the latest observation added nothing
\* new, think removes exactly the last element of the plan, makes it the
\* chosen action and changes nothing else: the goal stays, no search runs and
\* the remaining elements keep their order.
C8_PlanReuseFrame ==
  [][(pc = "think" /\ actions_plan # <<>> /\ nothingNew) =>
       /\ action' = actions_plan[Len(actions_plan)]
       /\ actions_plan' = [i \in 1..(Len(actions_plan) - 1) |-> actions_plan[i]]
       /\ current_goal' = current_goal
       /\ outcome' = "reuse"
       /\ found' = found
       /\ sent' = sent
       /\ UNCHANGED <<mapVars, goalVars>>]_vars

\* C8 witness: think has followed a plan and more than one action was queued.
C8_Witness ==
  /\ pc = "act"
  /\ outcome = "reuse"
  /\ Len(actions_plan) >= 1

\* C9: a plan found as a1..an is served in that order: the tick of the search
\* chooses a1 and leaves a2..an, and the k-th tick served from it chooses ak
\* and leaves a(k+1)..an, stored in reverse; after an the plan is empty.
C9_PlanServedInOrder ==
  found # <<>> =>
    /\ consumed \in 1..Len(found)
    /\ actions_plan = Reverse(SubSeq(found, consumed + 1, Len(found)))
    /\ pc = "act" => action = found[consumed]

\* C9 witness: the last action of a plan of three or more actions has been
\* chosen after the others, and the plan is empty.
C9_Witness ==
  /\ pc = "act"
  /\ outcome = "reuse"
  /\ Len(found) >= 3
  /\ consumed = Len(found)
  /\ action = found[Len(found)]
  /\ actions_plan = <<>>

\* C10: think and act never end a tick with an unhandled error.
C10_NoUnhandledError == pc \notin {"crashed", "key_error"}

\* C11: a message without a body ends the loop without error and without side
\* effect: observe, think and act are not run (the belief map, the plan, the
\* action and the goal are unchanged, think leaves no outcome) and nothing is
\* sent. The loop reaches "returned" from the receive only.
C11_GameOverFrame ==
  [][pc' = "returned" =>
       /\ pc = "recv"
       /\ UNCHANGED <<mapVars, agentVars, tickVars, planVars, goalVars>>
       /\ sent' = <<>>
       /\ outcome' = "none"]_vars

\* The game ends while a plan and a goal are held.
C11_Witness ==
  pc = "returned" /\ actions_plan # <<>> /\ current_goal \in Coords /\ sent = <<>>

\* The ancestors of node n: its parent, its parent's parent, ..., the root.
RECURSIVE ancestors(_)
ancestors(n) ==
  IF nodes[n].parent = NoParent THEN {} ELSE {nodes[n].parent} \cup ancestors(nodes[n].parent)

\* State a holds every cell of state s's body, under the same traversal flag.
dominates(a, s) == cells(s.body) \subseteq cells(a.body) /\ a.traverse = s.traverse

\* C12: n.in_parent(newstate) is True exactly when some ancestor of n (its
\* parent, its parent's parent, ..., the root) has newstate's traversal flag
\* and holds every cell of newstate's body; it is False on a root. Stated of
\* the call the expansion made, and of every node of the tree with each of its
\* successor states and each state already in the tree.
C12_InParentIffAncestorDominates ==
  /\ tried # NoTry =>
       (tried.result <=> \E a \in ancestors(tried.node) : dominates(nodes[a].state, tried.state))
  /\ \A n \in 1..Len(nodes) :
     \A s \in {succ.state : succ \in successors(nodes[n].state)}
                \cup {nodes[k].state : k \in 1..Len(nodes)} :
       /\ in_parent(n, s) <=> \E a \in ancestors(n) : dominates(nodes[a].state, s)
       /\ nodes[n].parent = NoParent => ~in_parent(n, s)

\* in_parent answered True because of the grandparent, the parent not holding
\* the new body.
C12_Witness ==
  /\ tried # NoTry
  /\ tried.result
  /\ nodes[tried.node].depth = 2
  /\ ~dominates(nodes[nodes[tried.node].parent].state, tried.state)
  /\ dominates(nodes[1].state, tried.state)

\* C13: in a tree whose nodes were admitted by in_parent, no node has an
\* ancestor, its direct parent included, that holds every cell of the node's
\* body under the same traversal flag.
C13_NoDominatingAncestor ==
  \A k \in 1..Len(nodes) : \A a \in ancestors(k) :
    ~dominates(nodes[a].state, nodes[k].state)

\* C20: a node's depth is 0 without a parent and its parent's depth plus one
\* otherwise, hence the number of parent links up to the root; and the
\* construction of a child changes no field of a node that already exists.
C20_DepthAndParentsUntouched ==
  /\ [](\A n \in 1..Len(nodes) :
          /\ nodes[n].parent = NoParent => nodes[n].depth = 0
          /\ nodes[n].parent # NoParent => nodes[n].depth = nodes[nodes[n].parent].depth + 1
          /\ nodes[n].depth = Cardinality(ancestors(n)))
  /\ [][\A n \in 1..Len(nodes) : Len(nodes') >= n /\ nodes'[n] = nodes[n]]_vars

\* A node two links below the root: its parent was built as a child and then
\* served as a parent.
C20_Witness ==
  \E n \in 1..Len(nodes) :
    /\ nodes[n].depth = 2
    /\ nodes[n].parent # NoParent
    /\ nodes[nodes[n].parent].parent = 1
    /\ nodes[nodes[n].parent].depth = 1

\* C14: for a head that is not on the goal, the direction the heuristic
\* proposes lies on an axis whose absolute offset is the larger one (or equal)
\* and points at the goal on that axis: WEST for head.x > goal.x, EAST for
\* head.x < goal.x, NORTH for head.y > goal.y, SOUTH for head.y < goal.y. A
\* proposal that is legal is returned, and the move makes that offset one less.
C14_ProposalTowardsGoal ==
  (pc = "fast_ret" /\ head # current_goal) =>
    LET p == fast_proposal(head, current_goal)
        dx == Abs(head[1] - current_goal[1])
        dy == Abs(head[2] - current_goal[2])
        after == move(head, p)
    IN  /\ p = "WEST" => (dx >= dy /\ head[1] > current_goal[1])
        /\ p = "EAST" => (dx >= dy /\ head[1] < current_goal[1])
        /\ p = "NORTH" => (dy >= dx /\ head[2] > current_goal[2])
        /\ p = "SOUTH" => (dy >= dx /\ head[2] < current_goal[2])
        /\ p \in legal =>
             /\ fast = p
             /\ p \in {"WEST", "EAST"} => Abs(after[1] - current_goal[1]) = dx - 1
             /\ p \in {"NORTH", "SOUTH"} => Abs(after[2] - current_goal[2]) = dy - 1

\* The goal lies to the west, further off than on the other axis, and the
\* legal proposal WEST is returned.
C14_Witness ==
  /\ pc = "fast_ret"
  /\ head[1] > current_goal[1]
  /\ Abs(head[1] - current_goal[1]) > Abs(head[2] - current_goal[2])
  /\ "WEST" \in legal
  /\ fast = "WEST"

\* C15: when no action is legal, the heuristic still returns one of the four
\* directions and act sends it: the tick in which act runs boxed in ends with
\* exactly that one direction sent, never with a failed lookup.
C15_BoxedInStillSends ==
  (legal = {} /\ pc \in {"logged", "key_error"}) =>
    /\ pc = "logged"
    /\ fast \in Directions
    /\ sent = <<DIRECTION_TO_KEY[fast]>>

\* Boxed in, act sent a direction drawn at random, not the one proposed.
C15_Witness ==
  /\ pc = "logged"
  /\ legal = {}
  /\ fast \in Directions
  /\ fast # fast_proposal(head, current_goal)
  /\ sent = <<DIRECTION_TO_KEY[fast]>>

\* C16: when the strategy is exploration, next_exploration is called once,
\* and a second time exactly when the first result is the head's own cell; the
\* goal position is the result of the last call. It is not called at all
\* when the goal is food or a power-up.
C16_ExploreRetry ==
  pc = "goal_ret" =>
    /\ strategy = "exploration" =>
         /\ Len(exploreCalls) \in {1, 2}
         /\ Len(exploreCalls) = 2 <=> exploreCalls[1] = head
         /\ current_goal = exploreCalls[Len(exploreCalls)]
    /\ strategy \in {"food", "super"} => exploreCalls = <<>>

\* The first call returned the head's cell, and so did the second, which
\* stands.
C16_Witness ==
  /\ pc = "goal_ret"
  /\ strategy = "exploration"
  /\ exploreCalls = <<head, head>>
  /\ current_goal = head

\* C17: in every state a non-empty actions_plan was produced by the search
\* for the current value of current_goal, failed re-plans included: the plan
\* never belongs to a goal other than the one recorded.
C17_PlanBelongsToCurrentGoal ==
  actions_plan # <<>> => planGoal = current_goal

\* C18: the value act looks up in DIRECTION_TO_KEY is always one of NORTH,
\* WEST, SOUTH, EAST, a failed search on the first tick (self.action still
\* None) included: the lookup never fails and only the keys w, a, s, d are sent.
C18_LookupNeverFails ==
  /\ pc # "key_error"
  /\ pc = "logged" => action \in DOMAIN DIRECTION_TO_KEY
  /\ \A i \in 1..Len(sent) : sent[i] \in {DIRECTION_TO_KEY[d] : d \in Directions}

\* A failed search with no plan left act an action that is not legal (None on
\* the first tick); act sent the heuristic's direction instead.
C18_Witness ==
  /\ pc = "logged"
  /\ outcome = "failed"
  /\ actions_plan = <<>>
  /\ fast \in Directions
  /\ action = fast
  /\ sent = <<DIRECTION_TO_KEY[fast]>>

\* C19: whenever _get_fast_action runs, from think's failure path or from act,
\* current_goal has been assigned by _find_goal: act is never entered, and no
\* value of the heuristic is ever kept, while the goal is still None; a plan is
\* followed only after a goal was assigned.
C19_GoalSetBeforeHeuristic ==
  /\ pc = "act" => current_goal \in Coords
  /\ fast # None => current_goal \in Coords
  /\ current_goal = NoGoal => (actions_plan = <<>> /\ action = None)

\* act called the heuristic in a tick that followed the plan: the goal it
\* read was assigned in an earlier tick.
C19_Witness ==
  /\ pc = "logged"
  /\ outcome = "reuse"
  /\ fast \in Directions
  /\ current_goal \in Coords

====
